---- MODULE Spec2Model ----
(***************************************************************************)
(* Geometric multigrid V-cycle of src/gmg/gmg.py: the driver's hierarchy   *)
(* construction (lines 163-178) followed by mg (lines 51-103).             *)
(*                                                                         *)
(* Scalars are the ring Z_Modulus extended by one non-finite value NaN     *)
(* that every arithmetic operation propagates, the way IEEE arithmetic     *)
(* propagates NaN.  Vectors are tuples of scalars, matrices tuples of rows.*)
(* PETSc vectors are objects: they live in `heap` and the program's        *)
(* variables and list slots hold addresses, so that aliasing (uhlist[0] is *)
(* uh) and in-place updates (ksp.solve, +=) are what the code does.        *)
(* Python lists are 0-based; At(list, k) reads list[k].                    *)
(***************************************************************************)
EXTENDS Integers, Sequences, FiniteSets, TLC

VARIABLES
  pc,        \* position in the script / in mg
  N_levels,  \* nl of the driver, N_levels of mg
  N_cycles,  \* mg's N_cycles
  nu,        \* mg's nu (smoother sweeps)
  A,         \* the assembled finest matrix (line 156)
  puse,      \* prolongation list (lines 129-133), mg's `prolongation`
  ruse,      \* restriction list (line 163), mg's `restriction`
  Alist,     \* matrix list (line 164), mg's `Ahlist`
  heap,      \* the vector objects, by address
  b,         \* address of the caller's right-hand side (line 157), mg's bh
  fph,       \* address of the caller's initial guess (line 184), mg's uh
  blist,     \* mg's blist: addresses, None where unset
  uhlist,    \* mg's uhlist: addresses, None where unset
  res,       \* mg's local res (line 86), a vector value
  idx,       \* the running loop index (il, i_level, i or j)
  num_cycle, \* mg's num_cycle
  wh,        \* address returned by mg (line 188), None before
  err,       \* the exception that ended the run, "" if none
  printed,   \* the residual norms printed at line 101, in order
  log,       \* history: the operations of the cycle in progress
  faulted,   \* history: some smoother/direct call failed (raised or non-finite)
  acted,     \* history: a smoother call, exact solve or buffer update happened
  u0,        \* history: the initial guess as the caller passed it
  b0         \* history: the right-hand side as the caller passed it

vars == <<pc, N_levels, N_cycles, nu, A, puse, ruse, Alist, heap, b, fph,
          blist, uhlist, res, idx, num_cycle, wh, err, printed, log,
          faulted, acted, u0, b0>>

\* ------------------------------------------------------------------ bounds
Modulus == 3
FineDim == 2
MaxLevels == 3
MaxCycles == 2
\* the driver's smoother sweep count (line 188)
NuDriver == 2

\* ------------------------------------------------------------- scalars
NaN == -1
Scalar == 0 .. (Modulus - 1)

sAdd(x, y) == IF x = NaN \/ y = NaN THEN NaN ELSE (x + y) % Modulus
sSub(x, y) == IF x = NaN \/ y = NaN THEN NaN ELSE (x - y) % Modulus
sMul(x, y) == IF x = NaN \/ y = NaN THEN NaN ELSE (x * y) % Modulus

\* ------------------------------------------------- vectors and matrices
\* number of unknowns on level k (0 = finest)
Dim(k) == IF FineDim - k >= 1 THEN FineDim - k ELSE 1

ZeroVec(n) == [k \in 1 .. n |-> 0]
NaNVec(n) == [k \in 1 .. n |-> NaN]
HasNaN(v) == \E k \in 1 .. Len(v) : v[k] = NaN
Vecs(n) == [1 .. n -> Scalar]

VecAdd(x, y) == [k \in 1 .. Len(x) |-> sAdd(x[k], y[k])]
VecSub(x, y) == [k \in 1 .. Len(x) |-> sSub(x[k], y[k])]

RECURSIVE DotTo(_, _, _)
DotTo(r, v, k) == IF k = 0 THEN 0 ELSE sAdd(DotTo(r, v, k - 1), sMul(r[k], v[k]))
Dot(r, v) == DotTo(r, v, Len(r))

\* Mat * Vec
MatVec(M, v) == [i \in 1 .. Len(M) |-> Dot(M[i], v)]
Column(M, j) == [i \in 1 .. Len(M) |-> M[i][j]]
MatMul(X, Y) == [i \in 1 .. Len(X) |-> [j \in 1 .. Len(Y[1]) |-> Dot(X[i], Column(Y, j))]]

\* Mat.transpose
\* (faulty variant: the matrix is copied, not transposed)
TransposeKeep(M) == M
Transpose(M) == [j \in 1 .. Len(M[1]) |-> [i \in 1 .. Len(M) |-> M[i][j]]]

\* A.PtAP(P) = P^T A P
PtAP(Am, P) == MatMul(MatMul(Transpose(P), Am), P)

\* PETSc.Vec.norm(v, 2), kept as the square: 0 exactly for the zero vector
RECURSIVE SqTo(_, _)
SqTo(v, k) == IF k = 0 THEN 0 ELSE SqTo(v, k - 1) + v[k] * v[k]
Norm2(v) == IF HasNaN(v) THEN NaN ELSE SqTo(v, Len(v))

\* residual(Ah, bh, xh), lines 43-48
residual(Ah, bh, xh) == Norm2(VecSub(bh, MatVec(Ah, xh)))

\* ------------------------------------------------------- Python lists
None == 0
Valid(list, k) == -Len(list) <= k /\ k < Len(list)
At(list, k) == IF k < 0 THEN list[Len(list) + k + 1] ELSE list[k + 1]
Put(list, k, x) == [list EXCEPT ![IF k < 0 THEN Len(list) + k + 1 ELSE k + 1] = x]
\* [None] * n
NoneList(n) == [k \in 1 .. (IF n > 0 THEN n ELSE 0) |-> None]
\* an unset matrix slot
NoMat == <<>>
NoMatList(n) == [k \in 1 .. (IF n > 0 THEN n ELSE 0) |-> NoMat]

\* ------------------------------------------- the solver primitives
\* One outcome of a call into PETSc: the call raised, or it returned `val`;
\* `fault` marks a failed call (an exception, or a non-finite result).
Outcome(raised, val) == [raised |-> raised, fault |-> raised \/ HasNaN(val), val |-> val]

\* Ng sweeps of the Richardson iteration x <- x + (b - A x) from the guess x
\* (ksp.setInitialGuessNonzero(True), setTolerances(max_it=Ng))
\* (faulty variant: the sweeps use a right-hand side of ones, not bg)
RECURSIVE RichardsonStaleRhs(_, _, _, _)
RichardsonStaleRhs(Ag, bg, Ng, x) ==
  IF Ng <= 0 THEN x
  ELSE RichardsonStaleRhs(Ag, bg, Ng - 1,
         VecAdd(x, VecSub([k \in 1 .. Len(bg) |-> 1], MatVec(Ag, x))))
RECURSIVE Richardson(_, _, _, _)
Richardson(Ag, bg, Ng, x) ==
  IF Ng <= 0 THEN x
  ELSE Richardson(Ag, bg, Ng - 1, VecAdd(x, VecSub(bg, MatVec(Ag, x))))

\* smoother(Ag, bg, Ng, igg, ksptype, pctype), lines 24-40: ksp.solve(bg, igg)
\* writes the result into igg.  The norm type is NONE and no converged reason
\* is read, so a diverged iteration returns like any other, with a non-finite
\* igg; a PETSc error surfaces as a Python exception.
smoother(Ag, bg, Ng, igg) ==
  { Outcome(FALSE, Richardson(Ag, bg, Ng, igg)),
    Outcome(FALSE, NaNVec(Len(igg))),
    Outcome(TRUE, igg) }

Singular(Ah) ==
  \E x \in Vecs(Len(Ah)) : x # ZeroVec(Len(Ah)) /\ MatVec(Ah, x) = ZeroVec(Len(Ah))

\* direct(Ah, bh), lines 10-21: yh = bh.duplicate(); ksp.solve(bh, yh); return yh.
\* A failed factorisation either raises or leaves yh non-finite; direct itself
\* checks nothing.
direct(Ah, bh) ==
  IF Singular(Ah)
  THEN { Outcome(TRUE, bh), Outcome(FALSE, NaNVec(Len(bh))) }
  ELSE IF HasNaN(bh)
  THEN { Outcome(FALSE, NaNVec(Len(bh))) }
  ELSE { Outcome(FALSE, CHOOSE x \in Vecs(Len(Ah)) : MatVec(Ah, x) = bh) }

\* ------------------------------------------------------------ inputs
\* tridiagonal symmetric matrices: d on the diagonal, o beside it
AFamily(n) ==
  { [i \in 1 .. n |-> [j \in 1 .. n |->
        IF i = j THEN d ELSE IF i - j = 1 \/ j - i = 1 THEN o ELSE 0]]
    : d \in {1, 2}, o \in {0, Modulus - 1} }

\* interpolation-like r x c transfer matrices: s on the diagonal, t below it
PFamily(r, c) ==
  { [i \in 1 .. r |-> [j \in 1 .. c |->
        IF i = j THEN st[1] ELSE IF i = j + 1 THEN st[2] ELSE 0]]
    : st \in {<<1, 0>>, <<1, 1>>, <<0, 0>>} }

\* prolongation lists for n levels: puse[k] maps level k+1 to level k
PLists(n) ==
  LET all == UNION { PFamily(Dim(k), Dim(k + 1)) : k \in 0 .. MaxLevels }
  IN  { p \in [1 .. (n - 1) -> all] :
          \A k \in 1 .. (n - 1) : p[k] \in PFamily(Dim(k - 1), Dim(k)) }

UnitVec(n) == [k \in 1 .. n |-> IF k = 1 THEN 1 ELSE 0]
BVecs(n) == {ZeroVec(n), UnitVec(n)}
UVecs(n) == {ZeroVec(n), UnitVec(n), [k \in 1 .. n |-> Modulus - 1]}

\* ------------------------------------------------------------- Init
\* The script after assembly (line 157) and interpolation of the initial guess
\* (line 184): b and fph are the only vector objects, the lists are not built.
Init ==
  /\ pc = "build"
  /\ N_levels \in 2 .. MaxLevels
  /\ N_cycles \in 0 .. MaxCycles
  /\ nu = NuDriver
  /\ A \in AFamily(Dim(0))
  /\ puse \in PLists(N_levels)
  /\ ruse = <<>>
  /\ Alist = <<>>
  /\ b0 \in BVecs(Dim(0))
  /\ u0 \in UVecs(Dim(0))
  /\ heap = <<b0, u0>>
  /\ b = 1
  /\ fph = 2
  /\ blist = <<>>
  /\ uhlist = <<>>
  /\ res = <<>>
  /\ idx = 0
  /\ num_cycle = 0
  /\ wh = None
  /\ err = ""
  /\ printed = <<>>
  /\ log = <<>>
  /\ faulted = FALSE
  /\ acted = FALSE

\* --------------------------------------------------------- exceptions
\* An uncaught exception ends the script: nothing else changes.
\* (variant: the exception is caught and mg returns what it has)
RaiseCaught(e, fault) ==
  /\ pc' = "return"
  /\ err' = e
  /\ faulted' = (faulted \/ fault)
  /\ UNCHANGED <<N_levels, N_cycles, nu, A, puse, ruse, Alist, heap, b, fph,
                 blist, uhlist, res, idx, num_cycle, wh, printed, log, acted,
                 u0, b0>>
Raise(e, fault) ==
  /\ pc' = "raised"
  /\ err' = e
  /\ faulted' = (faulted \/ fault)
  /\ UNCHANGED <<N_levels, N_cycles, nu, A, puse, ruse, Alist, heap, b, fph,
                 blist, uhlist, res, idx, num_cycle, wh, printed, log, acted,
                 u0, b0>>

\* ------------------------------------- hierarchy construction (driver)
\* for il in range(1, nl-1), line 170
BuildAt(il) == IF il < N_levels - 1 THEN "build_loop" ELSE "build_coarsest"

\* lines 163-168
Build0 ==
  /\ pc = "build"
  /\ IF ~Valid(NoMatList(N_levels - 1), 0) \/ ~Valid(puse, 0)
        \/ ~Valid(NoMatList(N_levels), 0)
     THEN Raise("IndexError", FALSE)
     ELSE /\ ruse' = Put(NoMatList(N_levels - 1), 0, Transpose(At(puse, 0)))
          /\ Alist' = Put(NoMatList(N_levels), 0, A)
          /\ idx' = 1
          /\ pc' = BuildAt(1)
          /\ UNCHANGED <<N_levels, N_cycles, nu, A, puse, heap, b, fph, blist,
                         uhlist, res, num_cycle, wh, err, printed, log,
                         faulted, acted, u0, b0>>

\* lines 171-174, one pass of the loop
BuildLoop ==
  /\ pc = "build_loop"
  /\ IF ~Valid(puse, idx)
     THEN Raise("IndexError", FALSE)
     ELSE /\ ruse' = Put(ruse, idx, Transpose(At(puse, idx)))
          /\ Alist' = Put(Alist, idx, PtAP(At(Alist, idx - 1), At(puse, idx - 1)))
          /\ idx' = idx + 1
          /\ pc' = BuildAt(idx + 1)
          /\ UNCHANGED <<N_levels, N_cycles, nu, A, puse, heap, b, fph, blist,
                         uhlist, res, num_cycle, wh, err, printed, log,
                         faulted, acted, u0, b0>>

\* lines 177-178, then the call of mg at line 188
BuildCoarsest ==
  /\ pc = "build_coarsest"
  /\ Alist' = Put(Alist, N_levels - 1,
                  PtAP(At(Alist, N_levels - 2), At(puse, N_levels - 2)))
  /\ pc' = "mg_entry"
  /\ UNCHANGED <<N_levels, N_cycles, nu, A, puse, ruse, heap, b, fph, blist,
                 uhlist, res, idx, num_cycle, wh, err, printed, log, faulted,
                 acted, u0, b0>>

\* ------------------------------------------------------------------ mg
\* for j in range(N_levels - 2, -1, -1), line 94
\* (faulty variant: the ascent stops above the finest level)
AscentAtSkipFinest(j) == IF j >= 1 THEN "correct" ELSE "report"
AscentAt(j) == IF j >= 0 THEN "correct" ELSE "report"

\* for i in range(N_levels - 1), line 80
DescentAt(i) == IF i < N_levels - 1 THEN "smooth_d" ELSE "solve"

\* for num_cycle in range(N_cycles), line 77
\* (faulty variant: a zero residual ends the loop)
CycleAtUntilConverged(k) ==
  IF k < N_cycles
     /\ (k = 0 \/ residual(At(Alist, 0), heap[b], heap[At(uhlist, 0)]) # 0)
  THEN DescentAt(0) ELSE "return"
CycleAt(k) == IF k < N_cycles THEN DescentAt(0) ELSE "return"

\* for i_level in range(1, N_levels - 1), line 74
\* (faulty variant: the loop also skips level N_levels - 2)
PreLoopAtShort(i) == IF i < N_levels - 2 THEN "preloop" ELSE CycleAt(0)
PreLoopAt(i) == IF i < N_levels - 1 THEN "preloop" ELSE CycleAt(0)

\* lines 66-69: the buffer lists, slot 0 bound to the caller's own objects
\* (variant: the arguments are validated first)
MgEntryValidating ==
  /\ pc = "mg_entry"
  /\ IF N_levels < 2 \/ Len(puse) # N_levels - 1 \/ Len(ruse) # N_levels - 1
        \/ nu <= 0 \/ N_cycles <= 0
     THEN Raise("ConfigurationError", FALSE)
     ELSE /\ blist' = Put(NoneList(N_levels), 0, b)
          /\ uhlist' = Put(NoneList(N_levels), 0, fph)
          /\ idx' = IF PreLoopAt(1) = "preloop" THEN 1 ELSE 0
          /\ pc' = PreLoopAt(1)
          /\ UNCHANGED <<N_levels, N_cycles, nu, A, puse, ruse, Alist, heap, b,
                         fph, res, num_cycle, wh, err, printed, log, faulted,
                         acted, u0, b0>>
\* (variant: slot 0 of uhlist is bound to a copy of uh)
MgEntryCopy ==
  /\ pc = "mg_entry"
  /\ IF ~Valid(NoneList(N_levels), 0)
     THEN Raise("IndexError", FALSE)
     ELSE /\ blist' = Put(NoneList(N_levels), 0, b)
          /\ heap' = Append(heap, heap[fph])
          /\ uhlist' = Put(NoneList(N_levels), 0, Len(heap) + 1)
          /\ idx' = IF PreLoopAt(1) = "preloop" THEN 1 ELSE 0
          /\ pc' = PreLoopAt(1)
          /\ UNCHANGED <<N_levels, N_cycles, nu, A, puse, ruse, Alist, b,
                         fph, res, num_cycle, wh, err, printed, log, faulted,
                         acted, u0, b0>>
MgEntry ==
  /\ pc = "mg_entry"
  /\ IF ~Valid(NoneList(N_levels), 0)
     THEN Raise("IndexError", FALSE)
     ELSE /\ blist' = Put(NoneList(N_levels), 0, b)
          /\ uhlist' = Put(NoneList(N_levels), 0, fph)
          /\ idx' = IF PreLoopAt(1) = "preloop" THEN 1 ELSE 0
          /\ pc' = PreLoopAt(1)
          /\ UNCHANGED <<N_levels, N_cycles, nu, A, puse, ruse, Alist, heap, b,
                         fph, res, num_cycle, wh, err, printed, log, faulted,
                         acted, u0, b0>>

\* line 75: uhlist[i_level] = restriction[i_level - 1] * uhlist[i_level - 1]
PreLoop ==
  /\ pc = "preloop"
  /\ IF ~Valid(ruse, idx - 1)
     THEN Raise("IndexError", FALSE)
     ELSE IF At(uhlist, idx - 1) = None
     THEN Raise("TypeError", FALSE)
     ELSE /\ heap' = Append(heap, MatVec(At(ruse, idx - 1), heap[At(uhlist, idx - 1)]))
          /\ uhlist' = Put(uhlist, idx, Len(heap) + 1)
          /\ acted' = TRUE
          /\ idx' = IF PreLoopAt(idx + 1) = "preloop" THEN idx + 1 ELSE 0
          /\ pc' = PreLoopAt(idx + 1)
          /\ UNCHANGED <<N_levels, N_cycles, nu, A, puse, ruse, Alist, b, fph,
                         blist, res, num_cycle, wh, err, printed, log, faulted,
                         u0, b0>>

\* smoother(Ahlist[i], blist[i], nu, uhlist[i], ksptype, pctype), lines 83 and
\* 97: the result replaces the contents of the object uhlist[i] names
SmoothStep(i, nextidx, nextpc) ==
  IF ~Valid(Alist, i) \/ ~Valid(blist, i) \/ ~Valid(uhlist, i)
  THEN Raise("IndexError", FALSE)
  ELSE IF At(blist, i) = None \/ At(uhlist, i) = None
  THEN Raise("TypeError", FALSE)
  ELSE \E out \in smoother(At(Alist, i), heap[At(blist, i)], nu, heap[At(uhlist, i)]) :
         IF out.raised
         THEN Raise("PETScError", TRUE)
         ELSE /\ heap' = [heap EXCEPT ![At(uhlist, i)] = out.val]
              /\ faulted' = (faulted \/ out.fault)
              /\ log' = Append(log, <<"smooth", i>>)
              /\ acted' = TRUE
              /\ idx' = nextidx
              /\ pc' = nextpc
              /\ UNCHANGED <<N_levels, N_cycles, nu, A, puse, ruse, Alist, b,
                             fph, blist, uhlist, res, num_cycle, wh, err,
                             printed, u0, b0>>

\* line 83
SmoothDown ==
  /\ pc = "smooth_d"
  /\ SmoothStep(idx, idx, "residual")

\* line 86: res = blist[i] - Ahlist[i] * uhlist[i]
Residual ==
  /\ pc = "residual"
  /\ IF At(blist, idx) = None \/ At(uhlist, idx) = None
     THEN Raise("TypeError", FALSE)
     ELSE /\ res' = VecSub(heap[At(blist, idx)],
                           MatVec(At(Alist, idx), heap[At(uhlist, idx)]))
          /\ log' = Append(log, <<"residual", idx>>)
          /\ pc' = "restrict"
          /\ UNCHANGED <<N_levels, N_cycles, nu, A, puse, ruse, Alist, heap, b,
                         fph, blist, uhlist, idx, num_cycle, wh, err, printed,
                         faulted, acted, u0, b0>>

\* the slot line 87 assigns: blist[i + 1]
\* (faulty variant: blist[i])
RestrictTargetSame(i) == i
RestrictTarget(i) == i + 1

\* line 87: blist[i + 1] = restriction[i] * res, a new object
Restrict ==
  /\ pc = "restrict"
  /\ IF ~Valid(ruse, idx)
     THEN Raise("IndexError", FALSE)
     ELSE /\ heap' = Append(heap, MatVec(At(ruse, idx), res))
          /\ blist' = Put(blist, RestrictTarget(idx), Len(heap) + 1)
          /\ log' = Append(log, <<"restrict", idx>>)
          /\ acted' = TRUE
          /\ idx' = idx + 1
          /\ pc' = DescentAt(idx + 1)
          /\ UNCHANGED <<N_levels, N_cycles, nu, A, puse, ruse, Alist, b, fph,
                         uhlist, res, num_cycle, wh, err, printed, faulted,
                         u0, b0>>

\* lines 90-91: uhlist[N_levels - 1] = direct(Ahlist[N_levels - 1],
\* blist[N_levels - 1]), a new object
Solve ==
  /\ pc = "solve"
  /\ IF ~Valid(Alist, N_levels - 1)
     THEN Raise("IndexError", FALSE)
     ELSE IF At(blist, N_levels - 1) = None
     THEN Raise("TypeError", FALSE)
     ELSE \E out \in direct(At(Alist, N_levels - 1), heap[At(blist, N_levels - 1)]) :
            IF out.raised
            THEN Raise("PETScError", TRUE)
            ELSE /\ heap' = Append(heap, out.val)
                 /\ uhlist' = Put(uhlist, N_levels - 1, Len(heap) + 1)
                 /\ faulted' = (faulted \/ out.fault)
                 /\ log' = Append(log, <<"solve", N_levels - 1>>)
                 /\ acted' = TRUE
                 /\ idx' = N_levels - 2
                 /\ pc' = AscentAt(N_levels - 2)
                 /\ UNCHANGED <<N_levels, N_cycles, nu, A, puse, ruse, Alist,
                                b, fph, blist, res, num_cycle, wh, err,
                                printed, u0, b0>>

\* line 96: uhlist[j] += prolongation[j] * uhlist[j + 1], in place
\* (faulty variant: = instead of +=, the slot is bound to a new object)
CorrectOverwrite ==
  /\ pc = "correct"
  /\ IF ~Valid(puse, idx)
     THEN Raise("IndexError", FALSE)
     ELSE IF At(uhlist, idx) = None \/ At(uhlist, idx + 1) = None
     THEN Raise("TypeError", FALSE)
     ELSE /\ heap' = Append(heap, VecAdd(heap[At(uhlist, idx)],
                             MatVec(At(puse, idx), heap[At(uhlist, idx + 1)])))
          /\ uhlist' = Put(uhlist, idx, Len(heap) + 1)
          /\ log' = Append(log, <<"correct", idx>>)
          /\ acted' = TRUE
          /\ pc' = "smooth_u"
          /\ UNCHANGED <<N_levels, N_cycles, nu, A, puse, ruse, Alist, b, fph,
                         blist, res, idx, num_cycle, wh, err, printed,
                         faulted, u0, b0>>
Correct ==
  /\ pc = "correct"
  /\ IF ~Valid(puse, idx)
     THEN Raise("IndexError", FALSE)
     ELSE IF At(uhlist, idx) = None \/ At(uhlist, idx + 1) = None
     THEN Raise("TypeError", FALSE)
     ELSE /\ heap' = [heap EXCEPT ![At(uhlist, idx)] =
                        VecAdd(@, MatVec(At(puse, idx), heap[At(uhlist, idx + 1)]))]
          /\ log' = Append(log, <<"correct", idx>>)
          /\ acted' = TRUE
          /\ pc' = "smooth_u"
          /\ UNCHANGED <<N_levels, N_cycles, nu, A, puse, ruse, Alist, b, fph,
                         blist, uhlist, res, idx, num_cycle, wh, err, printed,
                         faulted, u0, b0>>

\* line 97
SmoothUp ==
  /\ pc = "smooth_u"
  /\ SmoothStep(idx, idx - 1, AscentAt(idx - 1))

\* lines 100-101: res4 = residual(Ahlist[0], bh, uhlist[0]); print
Report ==
  /\ pc = "report"
  /\ printed' = Append(printed, residual(At(Alist, 0), heap[b], heap[At(uhlist, 0)]))
  /\ num_cycle' = num_cycle + 1
  /\ log' = <<>>
  /\ idx' = 0
  /\ pc' = CycleAt(num_cycle + 1)
  /\ UNCHANGED <<N_levels, N_cycles, nu, A, puse, ruse, Alist, heap, b, fph,
                 blist, uhlist, res, wh, err, faulted, acted, u0, b0>>

\* line 103, and the binding of wh at line 188
Return ==
  /\ pc = "return"
  /\ wh' = At(uhlist, 0)
  /\ pc' = "done"
  /\ UNCHANGED <<N_levels, N_cycles, nu, A, puse, ruse, Alist, heap, b, fph,
                 blist, uhlist, res, idx, num_cycle, err, printed, log,
                 faulted, acted, u0, b0>>

\* ------------------------------------------------------ specifications
MgNext ==
  \/ MgEntry
  \/ PreLoop
  \/ SmoothDown
  \/ Residual
  \/ Restrict
  \/ Solve
  \/ Correct
  \/ SmoothUp
  \/ Report
  \/ Return

Next ==
  \/ Build0
  \/ BuildLoop
  \/ BuildCoarsest
  \/ MgNext

\* the script as written: build the hierarchy, then run mg
Spec == Init /\ [][Next]_vars

\* ------------------------------------- mg called with arbitrary arguments
\* The matrix list the driver's construction yields for transfer list P
RECURSIVE Galerkin(_, _, _)
Galerkin(A0, P, n) ==
  IF n <= 1 THEN <<A0>>
  ELSE LET g == Galerkin(A0, P, n - 1)
       IN  Append(g, PtAP(g[n - 1], P[n - 1]))

\* a fixed transfer list: ones on and below the diagonal
CfgP(n) ==
  [k \in 1 .. n |-> [i \in 1 .. Dim(k - 1) |-> [j \in 1 .. Dim(k) |->
      IF i = j \/ i = j + 1 THEN 1 ELSE 0]]]

\* mg entered directly (line 51) with any level count, cycle count, sweep
\* count and transfer-list lengths, valid or not
InitCfg ==
  /\ pc = "mg_entry"
  /\ N_levels \in 0 .. MaxLevels
  /\ N_cycles \in (-1) .. MaxCycles
  /\ nu \in 0 .. NuDriver
  /\ A \in AFamily(Dim(0))
  /\ \E lenP \in 0 .. MaxLevels : puse = CfgP(lenP)
  /\ \E lenR \in 0 .. MaxLevels :
        ruse = [k \in 1 .. lenR |-> Transpose(CfgP(lenR)[k])]
  /\ Alist = Galerkin(A, CfgP(MaxLevels), MaxLevels)
  /\ b0 = UnitVec(Dim(0))
  /\ u0 = ZeroVec(Dim(0))
  /\ heap = <<b0, u0>>
  /\ b = 1
  /\ fph = 2
  /\ blist = <<>>
  /\ uhlist = <<>>
  /\ res = <<>>
  /\ idx = 0
  /\ num_cycle = 0
  /\ wh = None
  /\ err = ""
  /\ printed = <<>>
  /\ log = <<>>
  /\ faulted = FALSE
  /\ acted = FALSE

SpecCfg == InitCfg /\ [][MgNext]_vars

\* ================================================================ claims
BuildPcs == {"build", "build_loop", "build_coarsest"}
CyclePcs == {"smooth_d", "residual", "restrict", "solve", "correct", "smooth_u", "report"}
Levels == 0 .. (N_levels - 1)

IsPrefix(s, t) == Len(s) <= Len(t) /\ \A k \in 1 .. Len(s) : s[k] = t[k]
Last(s) == s[Len(s)]
Zero(v) == \A k \in 1 .. Len(v) : v[k] = 0

\* the operations of one V-cycle over n levels, in the order the spec gives
RECURSIVE DescentOps(_, _)
DescentOps(i, n) ==
  IF i >= n - 1 THEN <<>>
  ELSE <<<<"smooth", i>>, <<"residual", i>>, <<"restrict", i>>>> \o DescentOps(i + 1, n)
RECURSIVE AscentOps(_)
AscentOps(j) ==
  IF j < 0 THEN <<>>
  ELSE <<<<"correct", j>>, <<"smooth", j>>>> \o AscentOps(j - 1)
ExpectedCycle(n) == DescentOps(0, n) \o <<<<"solve", n - 1>>>> \o AscentOps(n - 2)

\* C1: for N_levels >= 2 the operations of a cycle are, in order, smooth i,
\* residual i, restrict i for i = 0 .. N_levels-2, one exact solve on level
\* N_levels-1, then correct j, smooth j for j = N_levels-2 .. 0, and nothing
\* else: what has run is always a prefix of that sequence, the cycle is
\* complete when the residual is reported, the residual is taken from the
\* just-smoothed u[i], and b[i+1] holds R_i * res when level i+1 is entered.
C1_CycleSequence ==
  /\ IsPrefix(log, ExpectedCycle(N_levels))
  /\ pc = "report" => log = ExpectedCycle(N_levels)
  /\ pc \in CyclePcs => Len(log) < Len(ExpectedCycle(N_levels)) \/ pc = "report"
  /\ pc = "restrict" =>
        res = VecSub(heap[At(blist, idx)], MatVec(At(Alist, idx), heap[At(uhlist, idx)]))
  /\ \A i \in Levels :
        (log # <<>> /\ Last(log) = <<"restrict", i>>) =>
           heap[At(blist, i + 1)] = MatVec(At(ruse, i), res)
  /\ \A k \in 1 .. Len(log) :
        /\ log[k][1] = "solve" => log[k][2] = N_levels - 1
        /\ log[k][1] = "smooth" => log[k][2] < N_levels - 1

C1_Witness ==
  /\ pc = "report"
  /\ N_levels = 3
  /\ num_cycle = 1
  /\ log = <<<<"smooth", 0>>, <<"residual", 0>>, <<"restrict", 0>>,
             <<"smooth", 1>>, <<"residual", 1>>, <<"restrict", 1>>,
             <<"solve", 2>>,
             <<"correct", 1>>, <<"smooth", 1>>, <<"correct", 0>>, <<"smooth", 0>>>>

\* the statements one cycle executes: the operations and the report
CycleSteps == 5 * (N_levels - 1) + 2
\* the statements still to run when none raises
StepsLeft ==
  LET inMg == (N_levels - 2) + N_cycles * CycleSteps + 1
  IN  CASE pc \in {"done", "raised"} -> 0
        [] pc = "return" -> 1
        [] pc \in CyclePcs -> (N_cycles - num_cycle) * CycleSteps - Len(log) + 1
        [] pc = "preloop" -> (N_levels - 1 - idx) + N_cycles * CycleSteps + 1
        [] pc = "mg_entry" -> 1 + inMg
        [] pc = "build_coarsest" -> 2 + inMg
        [] pc = "build_loop" -> (N_levels - 1 - idx) + 2 + inMg
        [] pc = "build" -> 1 + (N_levels - 2) + 2 + inMg

\* the counters of mg agree with the cycles completed
C2_Counts ==
  /\ Len(printed) = num_cycle
  /\ num_cycle <= N_cycles
  /\ pc \in CyclePcs => num_cycle < N_cycles
  /\ pc \in {"return", "done"} => num_cycle = N_cycles
  /\ pc = "report" => log # <<>> /\ Last(log) = <<"smooth", 0>>
  /\ pc = "done" => wh = At(uhlist, 0)
  /\ StepsLeft >= 0
  /\ StepsLeft = 0 <=> pc \in {"done", "raised"}
\* C2: mg terminates, and when it returns it has run exactly N_cycles cycles:
\* every statement that does not raise brings the run one step closer to its
\* end, whose distance depends on N_levels and N_cycles alone; one residual is
\* printed per completed cycle, only after the ascent has smoothed level 0; no
\* printed value ends the loop early or prolongs it; and the value returned is
\* uhlist[0].
C2_FixedCycleCount ==
  [][ /\ C2_Counts /\ C2_Counts'
      /\ pc' = "raised" \/ StepsLeft' = StepsLeft - 1 ]_vars

C2_Witness ==
  /\ pc = "done"
  /\ N_cycles = 2
  /\ Len(printed) = 2
  /\ printed[1] = 0
  /\ u0 # ZeroVec(Len(u0))

\* R is the transpose of P, entry by entry
IsTransposeOf(R, P) ==
  /\ Len(R) = Len(P[1])
  /\ \A r \in 1 .. Len(R) :
        /\ Len(R[r]) = Len(P)
        /\ \A c \in 1 .. Len(P) : R[r][c] = P[c][r]
\* C5: when mg is called the hierarchy is complete: Alist has N_levels
\* entries and ruse N_levels-1, none unset, ruse[i] is the transpose of
\* puse[i], Alist[0] is the assembled matrix and Alist[i+1] = ruse[i] *
\* Alist[i] * puse[i]; while it is being built, the slots filled so far
\* already satisfy this.
C5_Galerkin ==
  /\ pc \notin BuildPcs =>
        /\ Len(Alist) = N_levels
        /\ Len(ruse) = N_levels - 1
        /\ \A i \in 0 .. (N_levels - 1) : At(Alist, i) # NoMat
        /\ \A i \in 0 .. (N_levels - 2) : At(ruse, i) # NoMat
        /\ At(Alist, 0) = A
  /\ \A i \in 0 .. (Len(ruse) - 1) :
        At(ruse, i) # NoMat => IsTransposeOf(At(ruse, i), At(puse, i))
  /\ \A i \in 0 .. (Len(Alist) - 2) :
        At(Alist, i + 1) # NoMat =>
          At(Alist, i + 1) = MatMul(MatMul(At(ruse, i), At(Alist, i)), At(puse, i))

C5_Witness ==
  /\ pc = "mg_entry"
  /\ N_levels = 3
  /\ At(Alist, 2) # At(Alist, 1)
  /\ At(Alist, 1) # <<<<0>>>>
  /\ At(puse, 0) = <<<<1>>, <<1>>>>
  /\ At(ruse, 0) = <<<<1, 1>>>>

\* C6: with a zero right-hand side and a zero initial guess, as long as no
\* smoother or solver call has failed, every vector of the run is zero (every
\* b[i] and u[i], u[0] included) and every printed residual norm is 0.
C6_ZeroFixedPoint ==
  (Zero(b0) /\ Zero(u0) /\ ~faulted) =>
     /\ \A a \in 1 .. Len(heap) : Zero(heap[a])
     /\ Zero(res)
     /\ \A k \in 1 .. Len(printed) : printed[k] = 0

C6_Witness ==
  /\ Zero(b0) /\ Zero(u0) /\ ~faulted
  /\ pc = "done"
  /\ N_levels = 3
  /\ printed = <<0, 0>>
  /\ Zero(heap[wh])
  /\ A # <<<<1, 0>>, <<0, 1>>>>

\* C9: no step reads an unset slot: the slots each statement reads are set
\* when control reaches it, no TypeError is ever raised, and u[N_levels-1]
\* stays unset from mg's entry until the first exact solve.
C9_NoUnsetRead ==
  /\ err # "TypeError"
  /\ pc = "preloop" => At(uhlist, idx - 1) # None
  /\ pc \in {"smooth_d", "residual", "smooth_u"} =>
        At(blist, idx) # None /\ At(uhlist, idx) # None
  /\ pc = "solve" => At(blist, N_levels - 1) # None
  /\ pc = "correct" => At(uhlist, idx) # None /\ At(uhlist, idx + 1) # None
  /\ pc \in {"report", "return"} => At(uhlist, 0) # None
  /\ (pc \in {"preloop", "smooth_d", "residual", "restrict", "solve"} /\ num_cycle = 0) =>
        At(uhlist, N_levels - 1) = None

C9_Witness ==
  /\ pc = "correct"
  /\ N_levels = 3
  /\ idx = 1
  /\ num_cycle = 0
  /\ At(uhlist, 2) # None
  /\ At(uhlist, 1) # None

\* the configurations the spec calls invalid
InvalidCfg ==
  \/ N_levels < 2
  \/ Len(puse) # N_levels - 1
  \/ Len(ruse) # N_levels - 1
  \/ nu <= 0
  \/ N_cycles <= 0
CanStep ==
  IF pc \in {"smooth_d", "smooth_u"}
  THEN (At(blist, idx) # None /\ At(uhlist, idx) # None) =>
          smoother(At(Alist, idx), heap[At(blist, idx)], nu, heap[At(uhlist, idx)]) # {}
  ELSE IF pc = "solve"
  THEN At(blist, N_levels - 1) # None =>
          direct(At(Alist, N_levels - 1), heap[At(blist, N_levels - 1)]) # {}
  ELSE ENABLED Next
SlotsOf(list) == { At(list, k) : k \in 0 .. (Len(list) - 1) }
\* the last residual has just been printed
JustReported ==
  num_cycle > 0 /\ log = <<>> /\ pc \in {"smooth_d", "return", "done"}
\* the right-hand side is the caller's and the printed residual is against it
C7_Inv ==
  /\ heap[b] = b0
  /\ blist # <<>> => At(blist, 0) = b
  /\ JustReported =>
        printed[Len(printed)] = residual(A, b0, heap[At(uhlist, 0)])
\* what a step of mg leaves alone
C7_Act ==
  pc \notin BuildPcs =>
    /\ Alist' = Alist /\ puse' = puse /\ ruse' = ruse /\ A' = A
    /\ \A a \in 1 .. Len(heap) :
          heap'[a] # heap[a] => (a \in SlotsOf(uhlist) /\ a \notin SlotsOf(blist))
    /\ \A i \in 0 .. (Len(blist) - 1) :
          At(blist', i) # At(blist, i) => (i >= 1 /\ pc = "restrict" /\ i = idx + 1)
\* C7: during mg no matrix and no transfer operator changes, slot 0 of blist
\* stays bound to the caller's right-hand side, whose contents never change;
\* the only vector objects written in place are those uhlist names; and the
\* residual printed after a cycle is the one against the caller's original
\* right-hand side.
C7_Frame == []C7_Inv /\ [][C7_Act]_vars

C7_Witness ==
  /\ pc = "done"
  /\ N_cycles = 2
  /\ N_levels = 3
  /\ ~Zero(b0)
  /\ heap[b] = b0
  /\ heap[fph] # u0
  /\ ~faulted
  /\ printed[2] = residual(A, b0, heap[fph])
  /\ printed[2] # 0

\* when the first cycle starts, u[i] is the restriction of u[i-1]
C8_Inv ==
  (num_cycle = 0 /\ log = <<>> /\ pc = "smooth_d") =>
     \A i \in 1 .. (N_levels - 2) :
        heap[At(uhlist, i)] = MatVec(At(ruse, i - 1), heap[At(uhlist, i - 1)])
\* what a step may do to the slots and objects of uhlist and blist
C8_Act ==
  /\ pc \in (CyclePcs \cup {"return"}) =>
        \A i \in 0 .. (N_levels - 2) :
           /\ At(uhlist', i) = At(uhlist, i)
           /\ heap'[At(uhlist, i)] # heap[At(uhlist, i)] =>
                 (pc \in {"smooth_d", "smooth_u", "correct"} /\ idx = i)
  /\ (pc = "preloop" /\ pc' # "raised") =>
        /\ 1 <= idx /\ idx < N_levels - 1
        /\ At(uhlist, idx) = None
        /\ At(uhlist', idx) > Len(heap)
        /\ \A i \in Levels : i # idx => At(uhlist', i) = At(uhlist, i)
  /\ pc = "report" => (heap' = heap /\ uhlist' = uhlist /\ blist' = blist)
  /\ (pc = "solve" /\ pc' # "raised") =>
        (At(uhlist', N_levels - 1) > Len(heap) /\ Len(heap') = Len(heap) + 1)
  /\ (pc = "restrict" /\ pc' # "raised") =>
        (At(blist', idx + 1) > Len(heap) /\ Len(heap') = Len(heap) + 1)
\* C8: the pre-cycle loop assigns u[i], 1 <= i < N_levels-1, once, from
\* R_{i-1} * u[i-1]; during cycling no slot u[i], i < N_levels-1, is rebound,
\* its object changes only in a smoothing or correction step of level i, and
\* nothing changes across the cycle boundary; u[N_levels-1] and b[i+1] are
\* bound to fresh objects by each solve and each restriction.
C8_WarmStart == []C8_Inv /\ [][C8_Act]_vars

C8_Witness ==
  /\ pc = "smooth_d"
  /\ idx = 0
  /\ num_cycle = 1
  /\ N_levels = 3
  /\ ~faulted
  /\ At(uhlist, 1) = 3
  /\ heap[3] # MatVec(At(ruse, 0), u0)
  /\ At(uhlist, 2) > At(blist, 2)

\* C10 as stated: u[0] is the caller's own vector, mg returns that vector,
\* and after a run of at least one cycle it no longer holds its original
\* value; with no cycle it is unchanged.
C10_Original ==
  /\ uhlist # <<>> => At(uhlist, 0) = fph
  /\ pc = "done" => wh = fph
  /\ (pc = "done" /\ N_cycles >= 1) => heap[fph] # u0
  /\ (pc = "done" /\ N_cycles = 0) => heap[fph] = u0

\* C10 as amended: u[0] is the caller's own vector for the whole run, every
\* write to level 0 goes to that object (mg allocates no other object for
\* level 0), and mg returns it, so that after the run the caller's guess holds
\* the final solution, which may coincide with the original value; with no
\* cycle it is unchanged.
C10_CallerGuessInPlace ==
  /\ uhlist # <<>> => At(uhlist, 0) = fph
  /\ pc = "done" => (wh = fph /\ heap[wh] = heap[At(uhlist, 0)])
  /\ (pc = "done" /\ N_cycles = 0) => heap[fph] = u0
  /\ (pc \notin BuildPcs /\ heap[fph] # u0) => (acted /\ num_cycle + Len(log) > 0)

C10_Witness ==
  /\ pc = "done"
  /\ wh = fph
  /\ N_cycles = 1
  /\ heap[fph] # u0
  /\ ~faulted

====
